---- MODULE Spec2Model ----
(***************************************************************************)
(* GamePulse news microservice (functions/api/main.py).                    *)
(*                                                                         *)
(* State: the per-URL TTL cache, the article store ITEM_STORE, the clock,  *)
(* and the /api/news coroutines that are suspended in `await fetch_feed`.  *)
(* One action is the code a coroutine runs between two suspension points   *)
(* (the event loop is single-threaded, so that code is atomic).            *)
(* /api/article/{item_id} reads ITEM_STORE with one dict.get and builds    *)
(* its answer from the dict it got, so a lookup is one step.  An <img>     *)
(* element of an HTML string is one element of the sequence.               *)
(*                                                                         *)
(* Strings are sequences of one-character strings.  None is the Python     *)
(* None; in a raw entry it also stands for "the key is absent", which is   *)
(* what dict.get(key) returns for both.                                    *)
(***************************************************************************)
EXTENDS Integers, Sequences, FiniteSets, TLC

VARIABLES
    now,         \* the clock TTLCache reads
    cache,       \* cache: per source URL, the slot [set, val, at]
    ITEM_STORE,  \* id -> the stored article
    req,         \* the /api/news coroutines suspended in `await fetch_feed(url)`
    last,        \* the most recent response of /api/news
    nreq,        \* requests received so far
    art,         \* the response of /api/article/{item_id} given in the last step
    issued,      \* the ids of the items any /api/news request has built so far
    shown,       \* the ids that have appeared in a response of /api/news
    env          \* the environment of the run

vars == <<now, cache, ITEM_STORE, req, last, nreq, art, issued, shown, env>>

None == <<"None">>

Falsy(x) == x = None \/ x = <<>>

Min(a, b) == IF a <= b THEN a ELSE b

Range(f) == {f[i] : i \in DOMAIN f}

(***************************************************************************)
(* str methods used by the handler.                                        *)
(***************************************************************************)
Digits == <<"0", "1", "2", "3", "4", "5", "6", "7", "8", "9">>

\* code points of the characters of the model's alphabet
Ord(c) ==
    CASE c = " " -> 32
      [] c = "-" -> 45
      [] c \in Range(Digits) -> 48 + (CHOOSE d \in 0..9 : Digits[d + 1] = c)
      [] c = "A" -> 65
      [] c = "B" -> 66
      [] c = "a" -> 97
      [] c = "b" -> 98
      [] OTHER -> 126

LowerChar(c) ==
    CASE c = "A" -> "a"
      [] c = "B" -> "b"
      [] OTHER -> c

\* str.lower()
Lower(s) == [i \in 1..Len(s) |-> LowerChar(s[i])]

RECURSIVE LStrip(_)
LStrip(s) == IF s # <<>> /\ Head(s) = " " THEN LStrip(Tail(s)) ELSE s

RECURSIVE RStrip(_)
RStrip(s) ==
    IF s # <<>> /\ s[Len(s)] = " " THEN RStrip(SubSeq(s, 1, Len(s) - 1)) ELSE s

\* str.strip()
Strip(s) == RStrip(LStrip(s))

\* `a in b` for two str
Contains(b, a) ==
    \E k \in 0..(Len(b) - Len(a)) : SubSeq(b, k + 1, k + Len(a)) = a

\* a < b for two str: lexicographic by code point, a proper prefix is smaller
RECURSIVE StrLess(_, _)
StrLess(a, b) ==
    IF b = <<>> THEN FALSE
    ELSE IF a = <<>> THEN TRUE
    ELSE IF Ord(Head(a)) # Ord(Head(b)) THEN Ord(Head(a)) < Ord(Head(b))
    ELSE StrLess(Tail(a), Tail(b))

(***************************************************************************)
(* parse_date.  A datetime is modelled by its <<month, day>>; the year and *)
(* the time of day are the same for all entries.  isoformat() writes the   *)
(* fields zero-padded and "-"-separated, as datetime.isoformat does.       *)
(***************************************************************************)
ValidDate(t) == t[1] \in 1..12 /\ t[2] \in 1..31

Pad2(n) == <<Digits[(n \div 10) + 1], Digits[(n % 10) + 1]>>

\* datetime.isoformat()
IsoFormat(t) == Pad2(t[1]) \o <<"-">> \o Pad2(t[2])

IsDigit(c) == c \in Range(Digits)

DigitVal(c) == CHOOSE d \in 0..9 : Digits[d + 1] = c

\* datetime.fromisoformat(s): [ok |-> FALSE] stands for the ValueError
FromIsoFormat(s) ==
    IF /\ Len(s) = 5
       /\ s[3] = "-"
       /\ \A i \in {1, 2, 4, 5} : IsDigit(s[i])
    THEN LET t == <<10 * DigitVal(s[1]) + DigitVal(s[2]),
                    10 * DigitVal(s[4]) + DigitVal(s[5])>>
         IN  [ok |-> ValidDate(t), dt |-> t]
    ELSE [ok |-> FALSE, dt |-> <<0, 0>>]

DateKeys == <<"published", "updated", "pubDate">>

\* key + "_parsed"
ParsedKey(key) ==
    CASE key = "published" -> "published_parsed"
      [] key = "updated" -> "updated_parsed"
      [] key = "pubDate" -> "pubDate_parsed"

\* the body of the try block for one key: [ok |-> FALSE] when it raises
TryDate(entry, key) ==
    LET parsed == entry[ParsedKey(key)]
    IN  IF ~Falsy(parsed)
        THEN [ok |-> ValidDate(parsed), dt |-> parsed]
        ELSE FromIsoFormat(entry[key])

RECURSIVE ParseDateFrom(_, _)
ParseDateFrom(entry, k) ==
    IF k > Len(DateKeys) THEN None
    ELSE LET key == DateKeys[k]
             r == TryDate(entry, key)
         IN  IF ~Falsy(entry[key]) /\ r.ok
             THEN IsoFormat(r.dt)
             ELSE ParseDateFrom(entry, k + 1)

parse_date(entry) == ParseDateFrom(entry, 1)

(***************************************************************************)
(* make_id: the md5 hex digest of the link (the digests of the model's     *)
(* links, cut to eight digits).                                            *)
(***************************************************************************)
\* a digest of the link and the clock
make_id_salted(link) ==
    <<"h">> \o link \o <<Digits[now + 1]>>

make_id(link) ==
    CASE link = <<"1">> -> <<"c4ca4238">>
      [] link = <<"2">> -> <<"c81e728d">>
      [] link = <<"3">> -> <<"eccbc87e">>
      [] OTHER -> <<"d41d8cd9">>

(***************************************************************************)
(* extract_image.  entry.media_content and entry.media_thumbnail are lists *)
(* whose first element is a dict (with or without "url") or something a    *)
(* .get cannot be called on; entry.links is a list of dicts; an <img> tag  *)
(* in the HTML is one element of the string.  An absent list is the empty  *)
(* list: both fail the `if` and both yield no element.                     *)
(***************************************************************************)
\* the try block of the first loop: [found |-> FALSE] when url is falsy or
\* entry[field][0].get raises
MediaUrl(media) ==
    IF media = <<>> \/ media[1].kind # "dict" \/ Falsy(media[1].url)
    THEN [found |-> FALSE, url |-> None]
    ELSE [found |-> TRUE, url |-> media[1].url]

\* link.get("rel") == "enclosure" and link.get("type", "").startswith("image")
ImageEnclosure(link) ==
    link.rel = "enclosure" /\ link.type \in {"image/png", "image/jpeg"}

\* the src of an <img> element of the string
ImgSrc(tag) ==
    CASE tag = "<img src='i1'>" -> <<"i1">>
      [] tag = "<IMG src='i2'>" -> <<"i2">>
      [] OTHER -> None

\* re.search(r'<img[^>]+src=["\']([^"\']+)["\']', html, flags=re.I)
FirstImg(html) ==
    LET hits == {i \in 1..Len(html) : ImgSrc(html[i]) # None}
    IN  IF hits = {} THEN None
        ELSE ImgSrc(html[CHOOSE i \in hits : \A j \in hits : i <= j])

RECURSIVE JoinValues(_)
JoinValues(content) ==
    IF content = <<>> THEN <<>>
    ELSE Head(content).value \o JoinValues(Tail(content))

extract_image(entry) ==
    LET first == MediaUrl(entry.media_content)
        second == MediaUrl(entry.media_thumbnail)
        encl == {i \in 1..Len(entry.links) : ImageEnclosure(entry.links[i])}
        html == (IF Falsy(entry.summary) THEN <<>> ELSE entry.summary)
                  \o JoinValues(entry.content)
    IN  IF first.found THEN first.url
        ELSE IF second.found THEN second.url
        ELSE IF encl # {}
             THEN entry.links[CHOOSE i \in encl : \A j \in encl : i <= j].href
        ELSE FirstImg(html)

(***************************************************************************)
(* sanitize_html: bleach.clean with strip=True drops the tags that are not *)
(* in ALLOWED_TAGS (<img> among them) and keeps the text.                  *)
(***************************************************************************)
RECURSIVE sanitize_html(_)
sanitize_html(html) ==
    IF Falsy(html) THEN <<>>
    ELSE IF ImgSrc(Head(html)) # None THEN sanitize_html(Tail(html))
    ELSE <<Head(html)>> \o sanitize_html(Tail(html))

HtmlCap == 4000

(***************************************************************************)
(* The body of the loop `for e in entries` of news(): one raw entry either *)
(* is skipped or is written to ITEM_STORE and appended to items.           *)
(***************************************************************************)
EntryTitle(e) == Strip(IF e.title = None THEN <<>> ELSE e.title)

EntryDesc(e) ==
    IF ~Falsy(e.summary) THEN e.summary
    ELSE IF ~Falsy(e.description) THEN e.description
    ELSE <<>>

\* the check of the link alone
SkippedNoLink(e) == Falsy(e.link)

\* `if not link or not title: continue`
Skipped(e) == Falsy(e.link) \/ Falsy(EntryTitle(e))

\* query = (q or "").strip().lower()
QueryOf(q) == Lower(Strip(IF Falsy(q) THEN <<>> ELSE q))

\* `if query: text = (title + " " + desc).lower(); if query not in text: continue`
FilteredOut(e, query) ==
    /\ ~Falsy(query)
    /\ ~Contains(Lower(EntryTitle(e) \o <<" ">> \o EntryDesc(e)), query)

\* content_html = e["content"][0].get("value", "") or "", when there is content
EntryContent(e) == IF e.content = <<>> THEN <<>> ELSE e.content[1].value

ListItem(e, srcName) ==
    [id          |-> make_id(e.link),
     title       |-> EntryTitle(e),
     link        |-> e.link,
     source      |-> srcName,
     pubDate     |-> parse_date(e),
     image       |-> extract_image(e),
     description |-> EntryDesc(e)]

\* sanitize_html(content_html or desc)[:4000]
ContentHtml(e) ==
    LET clean == sanitize_html(IF EntryContent(e) # <<>> THEN EntryContent(e)
                               ELSE EntryDesc(e))
    IN  SubSeq(clean, 1, Min(HtmlCap, Len(clean)))

\* the dict written to ITEM_STORE: the list item and the sanitized HTML
StoredItem(e, srcName) ==
    [id           |-> make_id(e.link),
     title        |-> EntryTitle(e),
     link         |-> e.link,
     source       |-> srcName,
     pubDate      |-> parse_date(e),
     image        |-> extract_image(e),
     description  |-> EntryDesc(e),
     content_html |-> ContentHtml(e)]

\* a store of one record: a write drops what was stored before
StorePutLatest(store, item) == [k \in {item.id} |-> item]

\* a store keyed by the link
StorePutByLink(store, item) ==
    [k \in DOMAIN store \cup {item.link} |->
        IF k = item.link THEN item ELSE store[k]]

\* ITEM_STORE[_id] = {...}
StorePut(store, item) ==
    [k \in DOMAIN store \cup {item.id} |-> IF k = item.id THEN item ELSE store[k]]

\* acc = [items, store]; the entries are processed in feed order
RECURSIVE ProcessEntries(_, _, _, _)
ProcessEntries(entries, srcName, query, acc) ==
    IF entries = <<>> THEN acc
    ELSE LET e == Head(entries)
             item == ListItem(e, srcName)
             next == IF Skipped(e) \/ FilteredOut(e, query)
                     THEN acc
                     ELSE [items |-> Append(acc.items, item),
                           store |-> StorePut(acc.store, StoredItem(e, srcName))]
         IN  ProcessEntries(Tail(entries), srcName, query, next)

(***************************************************************************)
(* items.sort(key=sort_key, reverse=True); return items[:limit]            *)
(***************************************************************************)
\* an absent date as the newest instead of the oldest
sort_key_high(x) == IF Falsy(x.pubDate) THEN <<"9">> ELSE x.pubDate

\* x["pubDate"] or ""
sort_key(x) == IF Falsy(x.pubDate) THEN <<>> ELSE x.pubDate

\* list.sort is stable, also with reverse=True: x goes behind every element
\* whose key is not smaller than its own
SortInsert(sorted, x) ==
    LET p == Cardinality({i \in 1..Len(sorted) :
                            ~StrLess(sort_key(sorted[i]), sort_key(x))})
    IN  SubSeq(sorted, 1, p) \o <<x>> \o SubSeq(sorted, p + 1, Len(sorted))

RECURSIVE SortFrom(_, _)
SortFrom(sorted, rest) ==
    IF rest = <<>> THEN sorted
    ELSE SortFrom(SortInsert(sorted, Head(rest)), Tail(rest))

SortDesc(items) == SortFrom(<<>>, items)

\* the limit applied before the sort
ResponseCutFirst(items, limit) ==
    SortDesc(SubSeq(items, 1, Min(limit, Len(items))))

\* the two last statements of news()
Response(items, limit) == SubSeq(SortDesc(items), 1, Min(limit, Len(items)))

(***************************************************************************)
(* Bounds of the model and the inputs the environment draws from.          *)
(***************************************************************************)
NumSources == 2      \* the first NumSources entries of SOURCES are configured
NumReq == 2          \* /api/news coroutines that can be suspended at once
MaxRequests == 2     \* requests received in one run
MaxFeedLen == 2      \* entries in one fetched feed
LongFeedLen == 21    \* entries in the long feed
MaxTime == 3         \* the clock stops here
TTL == 2             \* CACHE_TTL, in clock ticks

LimitMin == 1
LimitMax == 100

SOURCES == <<"IGN", "Eurogamer", "GameSpot", "RPS", "Escapist">>

Srcs == 1..NumSources

Reqs == 1..NumReq

RawEntry(link, title, summary, published, parsed) ==
    [link |-> link, title |-> title, summary |-> summary, description |-> None,
     published |-> published, published_parsed |-> parsed,
     updated |-> None, updated_parsed |-> None,
     pubDate |-> None, pubDate_parsed |-> None,
     media_content |-> <<>>, media_thumbnail |-> <<>>, links |-> <<>>,
     content |-> <<>>]

\* raw entries as feedparser hands them over
EarlyA == RawEntry(<<"1">>, <<"a">>, <<"b">>, <<"x">>, <<2, 1>>)
LateB == RawEntry(<<"2">>, <<" ", "B", " ">>, None, <<"x">>, <<10, 1>>)
UndatedB == RawEntry(<<"1">>, <<"B">>, <<"a">>, None, None)
IsoAB == RawEntry(<<"3">>, <<"a", "b">>, <<>>, <<"1", "2", "-", "3", "1">>, None)
NoLink == RawEntry(None, <<"a">>, <<"b">>, <<"x">>, <<3, 1>>)
BlankTitle == RawEntry(<<"3">>, <<" ">>, <<"a">>, <<"x">>, None)
NoTitle == RawEntry(<<"2">>, None, <<"a">>, <<"x">>, <<3, 1>>)

RawEntries == {EarlyA, LateB, UndatedB, IsoAB, NoLink, BlankTitle, NoTitle}

RECURSIVE SeqsUpTo(_, _)
SeqsUpTo(S, n) ==
    IF n = 0 THEN {<<>>}
    ELSE LET shorter == SeqsUpTo(S, n - 1)
         IN  shorter \cup {Append(f, x) : f \in shorter, x \in S}

Feeds == SeqsUpTo(RawEntries, MaxFeedLen)

Limits == {LimitMin - 1, LimitMin, LimitMin + 1, LimitMax, LimitMax + 1}

\* q: absent, blank, and queries that meet titles and descriptions
Queries == {None, <<" ">>, <<"A">>, <<"a", " ", "b">>}

\* the `source` parameter of the request: absent, or the list of names
SourceParams == {None, <<"ign">>}

Outcomes == {"ok", "network_error", "timeout", "http_status"}

(***************************************************************************)
(* A run happens in one of four environments.  In the first a single       *)
(* request meets every feed of Feeds under every parameter; in the second  *)
(* requests overlap and follow each other while the clock runs, the feeds  *)
(* change between a few contents and articles are looked up in between; in *)
(* the third a single request meets a feed of many entries, in the fourth  *)
(* entries that carry their image in every way extract_image looks for.    *)
(***************************************************************************)
\* the ids asked of /api/article: of a link of the feeds, and of no link
ArticleIds == {make_id(<<"1">>), <<"0000">>}

OneRequest ==
    [feeds |-> Feeds, limits |-> Limits, queries |-> Queries,
     sources |-> SourceParams, articles |-> {},
     requests |-> 1, until |-> 0]

ManyRequests ==
    [feeds |-> {<<>>, <<EarlyA>>, <<UndatedB, LateB>>},
     limits |-> {LimitMin, LimitMax, LimitMax + 1}, queries |-> {None},
     sources |-> {None}, articles |-> ArticleIds,
     requests |-> MaxRequests, until |-> MaxTime]

\* a feed of LongFeedLen usable entries
LongFeed == [i \in 1..LongFeedLen |-> IF i % 2 = 1 THEN EarlyA ELSE LateB]

LongFeeds ==
    [feeds |-> {<<>>, <<IsoAB>>, LongFeed},
     limits |-> {LimitMin, LimitMax}, queries |-> {None, <<"A">>},
     sources |-> {None}, articles |-> {},
     requests |-> 1, until |-> 0]

\* what feedparser gives for <media:content>, <media:thumbnail>, <enclosure>
\* and the HTML of summary and content
Media(url) == <<[kind |-> "dict", url |-> url]>>

JunkMedia == <<[kind |-> "junk", url |-> None]>>

Enclosure(type, href) == <<[rel |-> "enclosure", type |-> type, href |-> href]>>

AlternateLink == <<[rel |-> "alternate", type |-> "text/html", href |-> <<"h1">>]>>

WithImage(media, thumb, links, summary) ==
    [EarlyA EXCEPT !.media_content = media, !.media_thumbnail = thumb,
                   !.links = links, !.summary = summary]

ImageEntries ==
    {WithImage(media, thumb, links, summary) :
        media \in {<<>>, Media(<<"m1">>), Media(None)},
        thumb \in {<<>>, Media(<<"t1">>)},
        links \in {AlternateLink, AlternateLink \o Enclosure("image/png", <<"e1">>),
                   Enclosure("image/jpeg", None)},
        summary \in {<<"b">>, <<"b", "<img src='i1'>">>}}
    \cup {WithImage(JunkMedia, <<>>, Enclosure("audio/mpeg", <<"e2">>), None),
          WithImage(JunkMedia, Media(<<"t1">>), <<>>, None),
          [EarlyA EXCEPT !.content = <<[value |-> <<"<IMG src='i2'>", "c">>]>>]}

Images ==
    [feeds |-> {<<>>} \cup {<<e>> : e \in ImageEntries},
     limits |-> {LimitMax}, queries |-> {None},
     sources |-> {None}, articles |-> {},
     requests |-> 1, until |-> 0]

Envs == {"one request", "many requests", "long feeds", "images"}

\* the inputs and bounds of the run's environment
World ==
    CASE env = "one request" -> OneRequest
      [] env = "many requests" -> ManyRequests
      [] env = "long feeds" -> LongFeeds
      [] env = "images" -> Images

NoSlot == [set |-> FALSE, val |-> <<>>, at |-> 0]

NoFeeds == [s \in Srcs |-> <<>>]

IdleReq ==
    [pc |-> "idle", serial |-> 0, after |-> 0, again |-> FALSE, limit |-> 0, q |-> None,
     source |-> None, idx |-> 0, items |-> <<>>, fetched |-> {}, failed |-> {},
     stale |-> {}, cold |-> {}, seen |-> NoFeeds]

NoResponse ==
    [status |-> 0, serial |-> 0, after |-> 0, again |-> FALSE, limit |-> 0, q |-> None,
     source |-> None, items |-> <<>>, resp |-> <<>>, fetched |-> {},
     failed |-> {}, stale |-> {}, seen |-> NoFeeds]

NoArticle == [status |-> 0, id |-> None, body |-> <<>>]

Init ==
    /\ now = 0
    /\ cache = [s \in Srcs |-> NoSlot]
    /\ ITEM_STORE = <<>>
    /\ req = [r \in Reqs |-> IdleReq]
    /\ last = NoResponse
    /\ nreq = 0
    /\ art = NoArticle
    /\ issued = {}
    /\ shown = {}
    /\ env \in Envs

(***************************************************************************)
(* cachetools.TTLCache(maxsize=32, ttl=CACHE_TTL), keyed by the source     *)
(* URL.  A slot is served while now - at < ttl; a write purges the expired *)
(* slots.  maxsize is never reached: there are fewer URLs than slots.      *)
(***************************************************************************)
\* a slot as old as the TTL is still served
ExpiredLate(slot, t) == ~(t - slot.at <= TTL)

Expired(slot, t) == ~(t - slot.at < TTL)

\* cache.get(url): the entries, or None ([none |-> TRUE])
CacheGet(c, s, t) ==
    IF c[s].set /\ ~Expired(c[s], t)
    THEN [none |-> FALSE, val |-> c[s].val]
    ELSE [none |-> TRUE, val |-> <<>>]

\* cache[url] = entries
CachePut(c, s, entries, t) ==
    [k \in Srcs |->
        IF k = s THEN [set |-> TRUE, val |-> entries, at |-> t]
        ELSE IF c[k].set /\ Expired(c[k], t) THEN NoSlot
        ELSE c[k]]

\* the slot of s is absent or older than the TTL at time t
SlotStale(c, s, t) == ~c[s].set \/ t - c[s].at >= TTL

(***************************************************************************)
(* news(): `for src in SOURCES` from source i on, up to the next await or  *)
(* to the end of the loop.  st is the coroutine's record; the result has   *)
(* idx = the source whose fetch is awaited, or NumSources + 1 at the end.  *)
(***************************************************************************)
\* the entries of source s, once they are known, go through the inner loop
TakeEntries(st, store, s, entries) ==
    LET acc == ProcessEntries(entries, SOURCES[s], QueryOf(st.q),
                              [items |-> st.items, store |-> store])
    IN  [st   |-> [st EXCEPT !.items = acc.items, !.seen[s] = entries],
         store |-> acc.store]

RECURSIVE RunLoop(_, _, _, _, _)
RunLoop(i, st, store, c, t) ==
    IF i > NumSources
    THEN [st |-> [st EXCEPT !.idx = i, !.pc = "done"], store |-> store]
    ELSE LET got == CacheGet(c, i, t)
             noted == IF SlotStale(c, i, t)
                      THEN [st EXCEPT !.stale = @ \cup {i}]
                      ELSE st
         IN  IF got.none
             THEN [st |-> [noted EXCEPT !.idx = i, !.pc = "fetching",
                                        !.fetched = @ \cup {i}],
                   store |-> store]
             ELSE LET took == TakeEntries(noted, store, i, got.val)
                  IN  RunLoop(i + 1, took.st, took.store, c, t)

\* what the caller gets when the coroutine returns
Returned(st) ==
    [status |-> 200, serial |-> st.serial, after |-> st.after,
     again |-> st.again,
     limit |-> st.limit, q |-> st.q, source |-> st.source,
     items |-> st.items, resp |-> Response(st.items, st.limit),
     fetched |-> st.fetched, failed |-> st.failed, stale |-> st.stale,
     seen |-> st.seen]

\* FastAPI's validation of Query(20, ge=1, le=100) answers 422
Rejected(serial, limit, q, source) ==
    [NoResponse EXCEPT !.status = 422, !.serial = serial, !.limit = limit,
                       !.q = q, !.source = source]

\* the coroutine r goes on from `run`: it is suspended again, or it returns
Resume(r, run) ==
    /\ ITEM_STORE' = run.store
    /\ issued' = issued \cup {x.id : x \in Range(run.st.items)}
    /\ IF run.st.pc = "done"
       THEN /\ req' = [req EXCEPT ![r] = IdleReq]
            /\ last' = Returned(run.st)
            /\ shown' = shown \cup {x.id : x \in Range(Returned(run.st).resp)}
       ELSE /\ req' = [req EXCEPT ![r] = run.st]
            /\ UNCHANGED <<last, shown>>

\* the sources without a servable slot now
Cold == {s \in Srcs : SlotStale(cache, s, now)}

\* the request has the parameters of the answered request `last`
Repeats(limit, q, source) ==
    /\ last.status = 200
    /\ last.limit = limit
    /\ last.q = q
    /\ last.source = source

\* a validation without the upper bound
LimitOkNoMax(limit) == limit >= LimitMin

\* limit: int = Query(20, ge=1, le=100)
LimitOk(limit) == limit >= LimitMin /\ limit <= LimitMax

\* GET /api/news?limit=..&q=..&source=..
News(r, limit, q, source) ==
    /\ req[r].pc = "idle"
    /\ nreq < World.requests
    /\ nreq' = nreq + 1
    /\ art' = NoArticle
    /\ IF ~LimitOk(limit)
       THEN /\ last' = Rejected(nreq + 1, limit, q, source)
            /\ UNCHANGED <<now, cache, ITEM_STORE, req, issued, shown, env>>
       ELSE /\ Resume(r, RunLoop(1, [IdleReq EXCEPT !.serial = nreq + 1,
                                                     !.after = last.serial,
                                                     !.cold = Cold,
                                                     !.again = Repeats(limit, q, source),
                                                     !.limit = limit, !.q = q,
                                                     !.source = source],
                                  ITEM_STORE, cache, now))
            /\ UNCHANGED <<now, cache, env>>

\* fetch_feed(url): the awaited GET ends; [raised |-> TRUE] is any exception
\* of client.get or raise_for_status
fetch_feed(outcome, feed) ==
    IF outcome = "ok" THEN [raised |-> FALSE, entries |-> feed]
    ELSE [raised |-> TRUE, entries |-> <<>>]

\* a handler that names the HTTP status error alone
ExceptStatusError(outcome) == outcome = "http_status"

\* `except Exception:` of news(): every exception of the fetch is handled
ExceptException(outcome) == TRUE

\* an exception leaves news(): the server answers 500
Crashed(st) ==
    [NoResponse EXCEPT !.status = 500, !.serial = st.serial, !.after = st.after,
                       !.limit = st.limit, !.q = st.q, !.source = st.source]

\* a cache write in a `finally:` stores the empty list of a failed fetch too
CacheAfterFetchAlways(c, s, got, t) == CachePut(c, s, got.entries, t)

\* `cache[src["url"]] = entries` is the last statement of the try block
CacheAfterFetch(c, s, got, t) ==
    IF got.raised THEN c ELSE CachePut(c, s, got.entries, t)

\* `await fetch_feed(url)` of coroutine r ends and news() goes on
FetchDone(r, outcome, feed) ==
    /\ req[r].pc = "fetching"
    /\ LET s == req[r].idx
           got == fetch_feed(outcome, feed)
           c2 == CacheAfterFetch(cache, s, got, now)
           st == IF got.raised THEN [req[r] EXCEPT !.failed = @ \cup {s}]
                 ELSE req[r]
           took == TakeEntries(st, ITEM_STORE, s, got.entries)
       IN  IF got.raised /\ ~ExceptException(outcome)
           THEN /\ req' = [req EXCEPT ![r] = IdleReq]
                /\ last' = Crashed(req[r])
                /\ UNCHANGED <<cache, ITEM_STORE, issued, shown>>
           ELSE /\ cache' = c2
                /\ Resume(r, RunLoop(s + 1, took.st, took.store, c2, now))
    /\ art' = NoArticle
    /\ UNCHANGED <<now, nreq, env>>

\* the dict get_article returns for a stored item
ArticleDetail(item) ==
    [id           |-> item.id,
     title        |-> item.title,
     source       |-> item.source,
     link         |-> item.link,
     pubDate      |-> item.pubDate,
     image        |-> item.image,
     content_html |-> IF ~Falsy(item.content_html) THEN item.content_html
                      ELSE <<"<p>">> \o sanitize_html(item.description)
                                     \o <<"</p>">>,
     attribution  |-> <<"Preview from ", item.source,
                        " (RSS). Full story at the source.">>]

\* a lookup that knows an article only while a cached feed carries it
get_article_cached(store, c, t, item_id) ==
    IF item_id \in DOMAIN store
       /\ \E s \in Srcs : /\ ~CacheGet(c, s, t).none
                           /\ \E i \in 1..Len(c[s].val) :
                                 make_id(c[s].val[i].link) = item_id
    THEN [status |-> 200, id |-> item_id, body |-> ArticleDetail(store[item_id])]
    ELSE [status |-> 404, id |-> item_id, body |-> <<>>]

\* get_article(item_id): 404 when ITEM_STORE.get(item_id) is falsy, or the
\* detail of the stored dict
get_article(store, c, t, item_id) ==
    IF item_id \notin DOMAIN store
    THEN [status |-> 404, id |-> item_id, body |-> <<>>]
    ELSE [status |-> 200, id |-> item_id, body |-> ArticleDetail(store[item_id])]

\* GET /api/article/{item_id}
GetArticle(item_id) ==
    /\ art' = get_article(ITEM_STORE, cache, now, item_id)
    /\ UNCHANGED <<now, cache, ITEM_STORE, req, last, nreq, issued, shown, env>>

Tick ==
    /\ now < World.until
    /\ now' = now + 1
    /\ art' = NoArticle
    /\ UNCHANGED <<cache, ITEM_STORE, req, last, nreq, issued, shown, env>>

Next ==
    \/ \E r \in Reqs, limit \in World.limits, q \in World.queries,
          source \in World.sources :
          News(r, limit, q, source)
    \/ \E r \in Reqs, outcome \in Outcomes :
          \E feed \in (IF outcome = "ok" THEN World.feeds ELSE {<<>>}) :
             FetchDone(r, outcome, feed)
    \/ \E item_id \in World.articles : GetArticle(item_id)
    \/ Tick

Spec == Init /\ [][Next]_vars

(***************************************************************************)
(* Properties.  They are stated on `last`, the response of the request     *)
(* that returned most recently, and on the suspended coroutines.           *)
(***************************************************************************)
Answered == last.status = 200

\* an entry the listing can show: a link, and a title that is not blank
Usable(e) ==
    /\ e.link # None /\ e.link # <<>>
    /\ e.title # None
    /\ \E i \in 1..Len(e.title) : e.title[i] # " "

ItemsOfSource(items, s) == {i \in 1..Len(items) : items[i].source = SOURCES[s]}

\* C1: whatever the outcomes of the fetches, a request with a valid limit is
\* answered 200; a source whose fetch failed contributes no item, and every
\* usable entry that passes the query filter, of every source that was
\* fetched or served from the cache, is in the list before the limit is
\* applied.
C1_FailedSourcesOnlyLoseTheirOwn ==
    /\ last.status \in {0, 200, 422}
    /\ last.status = 422 <=> last.limit \notin LimitMin..LimitMax /\ last.serial > 0
    /\ Answered =>
         /\ \A s \in last.failed : ItemsOfSource(last.items, s) = {}
         /\ \A s \in Srcs \ last.failed :
              \A k \in 1..Len(last.seen[s]) :
                 LET e == last.seen[s][k]
                 IN  Usable(e) /\ ~FilteredOut(e, QueryOf(last.q)) =>
                       \E i \in ItemsOfSource(last.items, s) :
                          /\ last.items[i].link = e.link
                          /\ last.items[i].title = Strip(e.title)

\* a fetch failed, and the other source's items are in the response
C1_Witness ==
    /\ Answered
    /\ last.failed # {}
    /\ last.fetched # last.failed
    /\ last.resp # <<>>

\* the request received last: returned already, or still suspended
Newest ==
    IF last.serial = nreq
    THEN [returned |-> TRUE, limit |-> last.limit, q |-> last.q,
          source |-> last.source, fetched |-> last.fetched, resp |-> last.resp]
    ELSE LET r == CHOOSE r \in Reqs : req[r].serial = nreq
         IN  [returned |-> FALSE, limit |-> req[r].limit, q |-> req[r].q,
              source |-> req[r].source, fetched |-> req[r].fetched,
              resp |-> <<>>]

\* a step in which a request with a valid limit and the parameters of the
\* answered request `last` is received
SameRequestAgain ==
    /\ nreq' = nreq + 1
    /\ Answered
    /\ Newest'.limit = last.limit
    /\ Newest'.q = last.q
    /\ Newest'.source = last.source

ServedAsBefore == Newest.returned /\ Newest.fetched = {}

\* no slot of the cache has outlived the TTL
NothingExpired == \A s \in Srcs : cache[s].set => now - cache[s].at < TTL

\* every source has a slot younger than the TTL, and the slot holds the
\* entries the answered request `last` used
AllCachedAsUsed ==
    \A s \in Srcs :
       /\ cache[s].set
       /\ now - cache[s].at < TTL
       /\ cache[s].val = last.seen[s]

\* a source is fetched exactly when its slot was absent or had outlived the
\* TTL at the time the request looked it up
FetchedWhenStale ==
    /\ last.fetched = last.stale
    /\ \A r \in Reqs : req[r].fetched = req[r].stale

C3_FetchesOverlap ==
    \A r \in Reqs :
       req[r].pc = "fetching" => req[r].cold \subseteq req[r].fetched

RECURSIVE NumOf(_)
NumOf(digits) ==
    IF digits = <<>> THEN 0
    ELSE 10 * NumOf(SubSeq(digits, 1, Len(digits) - 1))
           + DigitVal(digits[Len(digits)])

\* the day a pubDate string names, as a number that grows with time
DateValue(iso) ==
    LET p == CHOOSE i \in 1..Len(iso) : iso[i] = "-"
    IN  100 * NumOf(SubSeq(iso, 1, p - 1)) + NumOf(SubSeq(iso, p + 1, Len(iso)))

NewestFirst(items) ==
    \A i, j \in 1..Len(items) :
       i < j =>
          /\ items[i].pubDate = None => items[j].pubDate = None
          /\ items[i].pubDate # None /\ items[j].pubDate # None =>
                DateValue(items[i].pubDate) >= DateValue(items[j].pubDate)

\* C4: the items of a response are in descending order of pubDate, the
\* items without a pubDate behind all the dated ones, in whatever order the
\* feeds delivered them; and no request fails in the sort.
C4_ResponseIsNewestFirst ==
    /\ last.status # 500
    /\ Answered => NewestFirst(last.resp)

\* an undated item came first, two different dates followed, and the sort
\* changed the order
C4_Witness ==
    /\ Answered
    /\ Len(last.resp) >= 3
    /\ last.items[1].pubDate = None
    /\ last.resp # last.items
    /\ \E i, j \in 1..Len(last.items) :
          /\ last.items[i].pubDate # None
          /\ last.items[j].pubDate # None
          /\ last.items[i].pubDate # last.items[j].pubDate

\* a link, and a trimmed title that is not empty
WellFormed(item) ==
    /\ item.link # None /\ item.link # <<>>
    /\ item.title # None /\ item.title # <<>>
    /\ item.title[1] # " " /\ item.title[Len(item.title)] # " "

\* the entries of `seen` that are usable and pass the filter of query q
Passing(seen, q) ==
    {<<s, k>> \in UNION {{s} \X (1..Len(seen[s])) : s \in Srcs} :
        /\ Usable(seen[s][k])
        /\ ~FilteredOut(seen[s][k], QueryOf(q))}

\* C5: an entry without a link, or with a missing or blank title, adds
\* nothing: every item of a response, of a list under construction and of
\* ITEM_STORE has a link and a non-empty trimmed title, a response lists as
\* many items as there were usable entries passing the filter, and no
\* request fails.
C5_UnusableEntriesAreDropped ==
    /\ last.status # 500
    /\ \A i \in 1..Len(last.items) : WellFormed(last.items[i])
    /\ \A i \in 1..Len(last.resp) : WellFormed(last.resp[i])
    /\ \A r \in Reqs : \A i \in 1..Len(req[r].items) : WellFormed(req[r].items[i])
    /\ \A k \in DOMAIN ITEM_STORE : WellFormed(ITEM_STORE[k])
    /\ Answered => Len(last.items) = Cardinality(Passing(last.seen, last.q))

\* a feed held an unusable entry and a usable one
C5_Witness ==
    /\ Answered
    /\ last.items # <<>>
    /\ \E s \in Srcs : \E k \in 1..Len(last.seen[s]) : ~Usable(last.seen[s][k])

\* the query is in the lower-cased title or in the lower-cased description
InOneField(query, title, desc) ==
    Contains(Lower(title), query) \/ Contains(Lower(desc), query)

\* C6: with a query, an item is listed only if the trimmed, lower-cased
\* query is in its lower-cased title or in its lower-cased description, each
\* field on its own, and every usable entry that matches so is in the list
\* before the limit; with q absent or blank every usable entry is listed.
C6_QueryIsInTitleOrDescription ==
    Answered =>
       LET query == QueryOf(last.q)
       IN  IF query # <<>>
           THEN /\ \A i \in 1..Len(last.items) :
                      InOneField(query, last.items[i].title,
                                 last.items[i].description)
                /\ \A s \in Srcs : \A k \in 1..Len(last.seen[s]) :
                      LET e == last.seen[s][k]
                      IN  Usable(e) /\ InOneField(query, Strip(e.title), EntryDesc(e))
                            => \E i \in ItemsOfSource(last.items, s) :
                                  last.items[i].link = e.link
           ELSE Len(last.items) = Cardinality(Passing(last.seen, None))

LowerName(name) ==
    CASE name = "IGN" -> "ign"
      [] name = "Eurogamer" -> "eurogamer"
      [] name = "GameSpot" -> "gamespot"
      [] name = "RPS" -> "rps"
      [] name = "Escapist" -> "escapist"

\* C7: with a source allow-list, every returned item is of a source whose
\* name is in the list, compared without regard to case.
C7_OnlyListedSources ==
    Answered /\ last.source # None =>
       \A i \in 1..Len(last.resp) :
          LowerName(last.resp[i].source) \in Range(last.source)

Count(items, x) == Cardinality({i \in 1..Len(items) : items[i] = x})

\* a is at least as new as b
AsNewAs(a, b) ==
    \/ b.pubDate = None
    \/ a.pubDate # None /\ DateValue(a.pubDate) >= DateValue(b.pubDate)

\* C8: a response has min(limit, n) items of the n items merged from all
\* sources, in descending order of pubDate, and every item left out is no
\* newer than any item returned: the limit is applied after the merge and
\* the sort.
C8_LimitKeepsTheNewest ==
    Answered =>
       /\ Len(last.resp) = Min(last.limit, Len(last.items))
       /\ NewestFirst(last.resp)
       /\ \A x \in Range(last.resp) : Count(last.resp, x) <= Count(last.items, x)
       /\ \A y \in Range(last.items) :
             Count(last.resp, y) < Count(last.items, y) =>
                \A x \in Range(last.resp) : AsNewAs(x, y)

\* the limit cut the list, and the item the first source delivered first
\* was older than another source's and is left out
C8_Witness ==
    /\ Answered
    /\ last.limit < Len(last.items)
    /\ last.items[1] \notin Range(last.resp)
    /\ \E i \in 1..Len(last.resp) : last.resp[i].source # last.items[1].source

\* C9: no response holds two items with the same id.
C9_NoTwoItemsShareAnId ==
    Answered =>
       \A i, j \in 1..Len(last.resp) : i # j => last.resp[i].id # last.resp[j].id

\* the items of the responses and of the lists under construction
ListedItems == Range(last.resp) \cup UNION {Range(req[r].items) : r \in Reqs}

\* C10: an entry has one id for ever.  ITEM_STORE keeps every id that was
\* given out, under the link it was given to: no link is stored under two
\* ids, and every listed item is stored under its id with its link.
C10_OneIdPerLink ==
    /\ \A k1, k2 \in DOMAIN ITEM_STORE :
          ITEM_STORE[k1].link = ITEM_STORE[k2].link => k1 = k2
    /\ \A x \in ListedItems :
          /\ x.id \in DOMAIN ITEM_STORE
          /\ ITEM_STORE[x.id].link = x.link

\* a later request with another limit, served partly from the cache and
\* now suspended, lists a link that the last response lists too; and the
\* clock has reached the TTL
C10_Witness ==
    /\ Answered
    /\ now >= TTL
    /\ \E r \in Reqs :
          /\ req[r].pc = "fetching"
          /\ req[r].serial > last.serial
          /\ req[r].limit # last.limit
          /\ \E x \in Range(req[r].items) : \E y \in Range(last.resp) :
                x.link = y.link /\ x.id = y.id

(***************************************************************************)
(* C11.  GET /api/article/{item_id} answers 404 exactly when no /api/news  *)
(* request, completed or still in progress, has stored an item with that   *)
(* id; for a known id it answers 200 with the detail of the item stored    *)
(* under that id; and in both cases the step leaves the cache and the      *)
(* article store as they were.                                             *)
(***************************************************************************)
\* the detail shows the stored item
DetailOf(body, item) ==
    /\ body.id = item.id
    /\ body.title = item.title
    /\ body.source = item.source
    /\ body.link = item.link
    /\ body.pubDate = item.pubDate
    /\ body.image = item.image

C11_ArticleIs404ExactlyWhenUnknown ==
    [][art'.status # 0 =>
         /\ art'.status = (IF art'.id \in issued THEN 200 ELSE 404)
         /\ art'.status = 200 =>
               /\ art'.id \in DOMAIN ITEM_STORE
               /\ DetailOf(art'.body, ITEM_STORE[art'.id])
               /\ art'.body.id = art'.id
         /\ cache' = cache
         /\ ITEM_STORE' = ITEM_STORE]_vars

\* an article is served that only a request still in progress has stored
C11_Witness ==
    /\ art.status = 200
    /\ last.status = 0
    /\ \E r \in Reqs : req[r].pc = "fetching"

\* an unknown id is answered 404 although the store is not empty
C11_Witness404 ==
    /\ art.status = 404
    /\ ITEM_STORE # <<>>

(***************************************************************************)
(* C12.  A /api/news request whose limit is outside 1..100 is answered     *)
(* with a client error before any work: the step that receives it issues   *)
(* no fetch and leaves the cache, the article store and the suspended      *)
(* requests as they were; no request with such a limit is ever suspended   *)
(* in a fetch.                                                             *)
(***************************************************************************)
ValidLimits == LimitMin..LimitMax

C12_InvalidLimitIsRejectedBeforeAnyWork ==
    [][nreq' = nreq + 1 =>
         /\ \A r \in Reqs :
               req'[r].serial = nreq' => req'[r].limit \in ValidLimits
         /\ last'.serial = nreq' /\ last'.limit \notin ValidLimits =>
               /\ last'.status \in 400..499
               /\ last'.fetched = {}
               /\ last'.items = <<>>
               /\ cache' = cache
               /\ ITEM_STORE' = ITEM_STORE
               /\ req' = req]_vars

\* a request is rejected while the cache and the store hold data and another
\* request is suspended in a fetch
C12_Witness ==
    /\ last.status = 422
    /\ last.limit \notin ValidLimits
    /\ ITEM_STORE # <<>>
    /\ \E s \in Srcs : cache[s].set
    /\ \E r \in Reqs : req[r].pc = "fetching"

(***************************************************************************)
(* C13.  The entries processed per source in one /api/news request are     *)
(* capped at the first 20 of the feed: no source contributes more than 20  *)
(* items to the pre-limit list of a request, answered or in progress, and  *)
(* no more than 20 of its entries went through the entry loop.             *)
(***************************************************************************)
C13_AtMostTwentyEntriesPerSource ==
    \A s \in Srcs :
       /\ Cardinality(ItemsOfSource(last.items, s)) <= 20
       /\ \A r \in Reqs : Cardinality(ItemsOfSource(req[r].items, s)) <= 20
       /\ Cardinality({k \in DOMAIN ITEM_STORE :
                          ITEM_STORE[k].source = SOURCES[s]}) <= 20

(***************************************************************************)
(* C14.  While fetches of a /api/news request are still to resolve, the    *)
(* request modifies no shared state: a step in which one of its fetches    *)
(* resolves and after which it waits for another one leaves the article    *)
(* store and the cache as they were, so that the cache is written once,    *)
(* in the step in which the last fetch of the request resolves.            *)
(***************************************************************************)
C14_NoWriteBeforeAllFetchesResolve ==
    [][\A r \in Reqs :
         /\ req[r].pc = "fetching"
         /\ req'[r].pc = "fetching"
         /\ req'[r].serial = req[r].serial
         /\ req'[r].idx # req[r].idx
         => /\ ITEM_STORE' = ITEM_STORE
            /\ cache' = cache]_vars

(***************************************************************************)
(* C15.  The image of an item is found by an ordered chain: the URL of the *)
(* first media_content, else of the first media_thumbnail; else the href   *)
(* of an image-typed enclosure link; else the src of the first <img> of    *)
(* summary and content.  A step that finds no URL, because its field is    *)
(* absent, malformed or carries no URL, hands over to the next step, and   *)
(* the image is absent only when no step yields a URL.                     *)
(***************************************************************************)
\* the URLs a list of dicts carries under `key`, in order
WithUrl(list) ==
    SelectSeq(list, LAMBDA x : x.kind = "dict" /\ x.url # None /\ x.url # <<>>)

FromMedia(e) ==
    IF e.media_content # <<>> /\ WithUrl(<<e.media_content[1]>>) # <<>>
    THEN e.media_content[1].url
    ELSE IF e.media_thumbnail # <<>> /\ WithUrl(<<e.media_thumbnail[1]>>) # <<>>
    THEN e.media_thumbnail[1].url
    ELSE None

FromEnclosure(e) ==
    LET hrefs == SelectSeq(e.links, LAMBDA x : /\ x.rel = "enclosure"
                                                /\ x.type \in {"image/png", "image/jpeg"}
                                                /\ x.href # None)
    IN  IF hrefs = <<>> THEN None ELSE hrefs[1].href

FromHtml(e) ==
    LET html == (IF e.summary = None THEN <<>> ELSE e.summary)
                  \o (IF e.content = <<>> THEN <<>> ELSE e.content[1].value)
        imgs == SelectSeq(html, LAMBDA c : c \in {"<img src='i1'>", "<IMG src='i2'>"})
    IN  IF imgs = <<>> THEN None
        ELSE IF imgs[1] = "<img src='i1'>" THEN <<"i1">> ELSE <<"i2">>

FirstThatYields(e) ==
    IF FromMedia(e) # None THEN FromMedia(e)
    ELSE IF FromEnclosure(e) # None THEN FromEnclosure(e)
    ELSE FromHtml(e)

\* the items of source s, and the entries of its feed they come from
ItemsFrom(items, s) == SelectSeq(items, LAMBDA x : x.source = SOURCES[s])

EntriesListed(entries, q) ==
    SelectSeq(entries, LAMBDA e : Usable(e) /\ ~FilteredOut(e, QueryOf(q)))

C15_ImageIsFirstThatYields ==
    Answered =>
      \A s \in Srcs :
         LET got == ItemsFrom(last.items, s)
             from == EntriesListed(last.seen[s], last.q)
         IN  /\ Len(got) = Len(from)
             /\ \A i \in 1..Len(got) : got[i].image = FirstThatYields(from[i])

(***************************************************************************)
(* C16.  What a fetch that resolves does to the cache.                     *)
(***************************************************************************)
\* what cache.get(url) sees of the slot of k at time t
Served(c, k, t) ==
    IF c[k].set /\ t - c[k].at < TTL
    THEN [live |-> TRUE, val |-> c[k].val, at |-> c[k].at]
    ELSE [live |-> FALSE, val |-> <<>>, at |-> 0]

\* in this step the awaited fetch of request r resolves
Resolves(r) == req[r].pc = "fetching" /\ req'[r] # req[r]

\* in this step the awaited fetch of request r fails
Fails(r) ==
    /\ Resolves(r)
    /\ req[r].idx \in (IF req'[r].serial = req[r].serial THEN req'[r].failed
                        ELSE last'.failed)

\* in this step the awaited fetch of request r succeeds
Succeeds(r) == Resolves(r) /\ ~Fails(r)

\* the slot of the fetched source holds the fetched entries, written now, and
\* cache.get sees the slots of the other sources as before
WritesOwnSlotOnly(r) ==
    LET s == req[r].idx
        entries == IF req'[r].serial = req[r].serial THEN req'[r].seen[s]
                   ELSE last'.seen[s]
    IN  /\ cache'[s] = [set |-> TRUE, val |-> entries, at |-> now]
        /\ \A k \in Srcs \ {s} : Served(cache', k, now) = Served(cache, k, now)

\* C16 as stated: a failed fetch is never cached.  The step in which the
\* fetch of a source fails leaves the cache unchanged and the slot of that
\* source is still missing after it, so that the next request fetches the
\* source again; the cache changes only in a step in which a fetch succeeds,
\* and that step writes the slot of the fetched source alone.
C16_FailedFetchLeavesSlotMissing ==
    [][/\ \A r \in Reqs :
            /\ Fails(r) => /\ cache' = cache
                           /\ ~Served(cache', req[r].idx, now).live
            /\ Succeeds(r) => WritesOwnSlotOnly(r)
       /\ cache' # cache => \E r \in Reqs : Succeeds(r)]_vars

\* C16: a failed fetch is never cached.  The step in which the fetch of a
\* source fails leaves the cache unchanged: the slot of that source is still
\* missing unless the successful fetch of another request has written it in
\* the meantime.  A request fetches every source whose slot is missing or
\* expired when it looks it up, also within the TTL of the other slots.  The
\* cache changes only in a step in which a fetch succeeds, and that step
\* writes the slot of the fetched source alone.
C16_FailedFetchLeavesCacheUnchanged ==
    [][/\ \A r \in Reqs :
            /\ Fails(r) => cache' = cache
            /\ Succeeds(r) => WritesOwnSlotOnly(r)
       /\ cache' # cache => \E r \in Reqs : Succeeds(r)
       /\ FetchedWhenStale']_vars

\* the fetch of the first source has failed in one request, its slot is
\* missing, and a later request is fetching that source again at the same
\* time of the clock
C16_Witness ==
    \E r, r2 \in Reqs :
       /\ req[r].pc = "fetching" /\ 1 \in req[r].failed
       /\ ~cache[1].set
       /\ req[r2].pc = "fetching" /\ req[r2].idx = 1
       /\ req[r2].serial > req[r].serial

(***************************************************************************)
(* C17.  The article store only grows: no step removes a key of            *)
(* ITEM_STORE; every item of a response of /api/news is in ITEM_STORE when *)
(* the response is given; and a lookup of an id that has appeared in a     *)
(* response is answered 200 ever after, whatever has happened to the cache *)
(* and to the feeds since.                                                 *)
(***************************************************************************)
C17_StoreOnlyGrows ==
    [][/\ DOMAIN ITEM_STORE \subseteq DOMAIN ITEM_STORE'
       /\ \A x \in Range(last'.resp) :
             /\ x.id \in shown'
             /\ x.id \in DOMAIN ITEM_STORE'
             /\ ITEM_STORE'[x.id].link = x.link
       /\ shown \subseteq shown'
       /\ art'.status # 0 /\ art'.id \in shown' => art'.status = 200]_vars

\* the cache holds the entry with this id in a slot that is still served
CacheHolds(id) ==
    \E s \in Srcs :
       /\ Served(cache, s, now).live
       /\ \E i \in 1..Len(cache[s].val) : make_id(cache[s].val[i].link) = id

\* an article that was listed once is served after the TTL, when the cache
\* no longer holds it and the feeds, fetched again, no longer carry it
C17_Witness ==
    /\ art.status = 200
    /\ art.id \in shown
    /\ now >= TTL
    /\ ~CacheHolds(art.id)
    /\ last.status = 200 /\ last.fetched = Srcs /\ last.failed = {}
    /\ \A s \in Srcs : \A i \in 1..Len(last.seen[s]) :
          make_id(last.seen[s][i].link) # art.id

(***************************************************************************)
(* C18.  In every reachable state, whatever the interleaving of /api/news  *)
(* and /api/article requests, every key k of ITEM_STORE maps to a record   *)
(* whose id is k and is the hash of the record's link, with a non-empty    *)
(* link and a non-empty title; and an article answered 200 carries the id  *)
(* that was asked for.                                                     *)
(***************************************************************************)
C18_StoreIsKeyedByTheHashOfTheLink ==
    /\ \A k \in DOMAIN ITEM_STORE :
          /\ ITEM_STORE[k].id = k
          /\ make_id(ITEM_STORE[k].link) = k
          /\ ITEM_STORE[k].link # None /\ ITEM_STORE[k].link # <<>>
          /\ ITEM_STORE[k].title # None /\ ITEM_STORE[k].title # <<>>
    /\ art.status = 200 => art.body.id = art.id

\* an article is served from a store of two records while a request is
\* suspended in a fetch
C18_Witness ==
    /\ art.status = 200
    /\ art.body.id = art.id
    /\ Cardinality(DOMAIN ITEM_STORE) >= 2
    /\ \E r \in Reqs : req[r].pc = "fetching"

=============================================================================
